---- MODULE Spec2Model ----
(***************************************************************************)
(* Model of the CVSP solver (src/src/cvsp.py): the facade cvsp_solver, the *)
(* formulation encoders, the packing oracle n_bins_to_pack and the lazy    *)
(* constraint callbacks.  The external MIP solver is modelled by what it   *)
(* guarantees: it ends either with status OPTIMAL and some optimal point   *)
(* of the registered model, or with another status.  Binary variables are  *)
(* read back as exact 0/1 values.                                          *)
(***************************************************************************)
EXTENDS Integers, Sequences, FiniteSets, TLC

\* ------------------------------------------------------------------------
\* Bounds of the model.
MaxNodes == 3
MaxK == 2
MaxB == 3
MaxOracleNodes == 6
MaxListLen == 4
MaxOracleFailures == 1
MaxEdgeLines == 2

\* graph .. b_value: the arguments of cvsp_solver; pc: where the call is;
\* encoder: the function the dispatch selected; error: the exception raised;
\* cover: the cover constraints of the live model; incumbent: the solver's
\* best accepted point (read back through .x); status: model.status;
\* solution: the value returned; num_bins: the oracle's return value;
\* node_list, w_family: the node list handed to the subset enumerator and its result;
\* quiet: the quiet argument; printed: the messages written by print();
\* w_pos, evaluated: the position of formulation 3's loop over W and what it
\* found for the subsets before it; where: the event of the latest callback
\* invocation; rejections: the incumbents the callback has cut off.
\* The programs around the solver: ui: the fields of the UiMainWindow object
\* (gui_main.py); graph_object: the Graph instance (src/src/graph.py), its
\* fields or None; disk: the files, by name; args: the command line options
\* of cli_main.py; forwarded: the arguments cli_main.py passes on.
VARIABLES graph, library_name, formulation_index, k_value, b_value,
          pc, encoder, error, cover, incumbent, status, solution,
          num_bins, node_list, w_family,
          quiet, printed, w_pos, evaluated, where, rejections,
          ui, graph_object, disk, args, forwarded

vars == <<graph, library_name, formulation_index, k_value, b_value,
          pc, encoder, error, cover, incumbent, status, solution,
          num_bins, node_list, w_family,
          quiet, printed, w_pos, evaluated, where, rejections,
          ui, graph_object, disk, args, forwarded>>

\* The state of the programs around the solver, and its value in a run that
\* calls cvsp_solver directly.
shell == <<ui, graph_object, disk, args, forwarded>>

None == [kind |-> "None"]

Detached ==
    /\ ui = None
    /\ graph_object = None
    /\ disk = << >>
    /\ args = None
    /\ forwarded = None

\* ------------------------------------------------------------------------
\* Arithmetic helpers.
SetMax(S) == CHOOSE m \in S : \A o \in S : o <= m
SetMin(S) == CHOOSE m \in S : \A o \in S : m <= o

\* ------------------------------------------------------------------------
\* Graphs (networkx.Graph): a node set and a set of edges; graph.edges()
\* reports every undirected edge once, as a pair (w, v).
AllEdges(n) == {e \in (1..n) \X (1..n) : e[1] < e[2]}

AllGraphs == UNION {{[V |-> 1..n, E |-> es] : es \in SUBSET AllEdges(n)} : n \in 1..MaxNodes}

\* The input graphs, up to the numbering of the nodes: every graph is a
\* renumbering of one whose nodes are numbered by non-increasing degree.
Degree(g, u) == Cardinality({e \in g.E : e[1] = u \/ e[2] = u})

Graphs == {g \in AllGraphs : \A u \in g.V : \A v \in g.V : u < v => Degree(g, u) >= Degree(g, v)}

\* graph.subgraph(w)
Subgraph(g, w) ==
    [V |-> g.V \cap w, E |-> {e \in g.E : e[1] \in w /\ e[2] \in w}]

Neighbours(g, u) == {v \in g.V : <<u, v>> \in g.E \/ <<v, u>> \in g.E}

RECURSIVE Grow(_, _)
Grow(g, s) ==
    LET s2 == s \cup UNION {Neighbours(g, u) : u \in s}
    IN IF s2 = s THEN s ELSE Grow(g, s2)

\* nx.connected_components(g)
ConnectedComponents(g) == {Grow(g, {v}) : v \in g.V}

IsClique(g, q) == \A u \in q : \A v \in q : u = v \/ v \in Neighbours(g, u)

\* Mutant of find_cliques: an isolated node is not reported as a clique.
FindCliquesOfEdges(g) ==
    {q \in (SUBSET g.V) \ {{}} :
        /\ Cardinality(q) >= 2
        /\ IsClique(g, q)
        /\ \A v \in g.V \ q : ~IsClique(g, q \cup {v})}

\* nx.find_cliques(g): the maximal cliques (an isolated node is one).
FindCliques(g) ==
    {q \in (SUBSET g.V) \ {{}} :
        /\ IsClique(g, q)
        /\ \A v \in g.V \ q : ~IsClique(g, q \cup {v})}

\* ------------------------------------------------------------------------
\* itertools.combinations(V, r) over the node list, in its emission order,
\* and the candidate family W built by the subset-cover encoders.
RECURSIVE Combinations(_, _)
Combinations(list, r) ==
    IF r = 0 THEN << <<>> >>
    ELSE IF Len(list) < r THEN << >>
    ELSE LET withHead == Combinations(Tail(list), r - 1)
             without == Combinations(Tail(list), r)
         IN [i \in 1..Len(withHead) |-> <<Head(list)>> \o withHead[i]] \o without

RECURSIVE ExtendW(_, _, _)
ExtendW(list, size, W) ==
    IF size >= Len(list) THEN W
    ELSE ExtendW(list, size + 1, W \o Combinations(list, size))

\* W = []; for subset_size in range(1, len(V)): W.extend(combinations(V, subset_size))
CandidateSubsets(list) == ExtendW(list, 1, << >>)

Range(seq) == {seq[i] : i \in 1..Len(seq)}

RECURSIVE NodeList(_)
NodeList(S) == IF S = {} THEN << >> ELSE <<SetMin(S)>> \o NodeList(S \ {SetMin(S)})

\* ------------------------------------------------------------------------
\* The packing oracle n_bins_to_pack(graph, bin_size).  The items of its
\* ILP are graph.nodes(); x[i, j] = 1 is written a[i] = j, which carries the
\* constraint "each item is in exactly one bin"; y is the set of bins j with
\* y[j] = 1.  The solve always ends OPTIMAL when the ILP is feasible.
PackBins(g) == 0..(Cardinality(g.V) - 1)

PackLoad(g, a, j) == Cardinality({i \in g.V : a[i] = j})

\* sum(x[(i, j)] for i in nodes) <= y[j] * bin_size, with the least y for a.
PackFeasible(g, a, bin_size) ==
    \A j \in PackBins(g) : PackLoad(g, a, j) <= bin_size

\* Bins counted by the extraction loop: y[j] = 1 and bin_weight > 0.  In an
\* optimal point y[j] = 1 only for the bins that hold an item.
PackUsed(g, a) == Cardinality({j \in PackBins(g) : PackLoad(g, a, j) > 0})

Infinity == 1000

NBinsToPack(g, bin_size) ==
    LET feas == {a \in [g.V -> PackBins(g)] : PackFeasible(g, a, bin_size)}
    IN IF feas = {} THEN Infinity
       ELSE SetMin({PackUsed(g, a) : a \in feas})

\* ------------------------------------------------------------------------
\* The external solver.  For a feasible set and an objective it ends OPTIMAL
\* at any optimal point, INFEASIBLE when there is no point, or it is stopped
\* before optimality (interrupt, time or memory limit).
OptimalStatus == "OPTIMAL"
NonOptimalStatuses == {"INFEASIBLE", "INTERRUPTED"}

ArgMax(feas, obj(_)) ==
    LET best == SetMax({obj(p) : p \in feas}) IN {p \in feas : obj(p) = best}

ArgMin(feas, obj(_)) ==
    LET best == SetMin({obj(p) : p \in feas}) IN {p \in feas : obj(p) = best}

NoPoint == [none |-> TRUE]

SolveOutcomes(optima) ==
    {[status |-> "INTERRUPTED", point |-> NoPoint]}
    \cup (IF optima = {}
          THEN {[status |-> "INFEASIBLE", point |-> NoPoint]}
          ELSE {[status |-> OptimalStatus, point |-> p] : p \in optima})

\* ------------------------------------------------------------------------
\* Formulations 1, 1 alt b, 1 alt c and 2: binary xi[i][v], shore i, node v.
ShoreIndices(k) == 0..(k - 1)

XiSpace(g, k) == [ShoreIndices(k) -> [g.V -> {0, 1}]]

\* sum(e[i][v] for i in I) over binary variables
ShoreSum(xi, I, v) == Cardinality({i \in I : xi[i][v] = 1})

\* "1a": sum(e[i][v] for i in K for v in V), maximised
Objective1a(g, k, xi) ==
    Cardinality({p \in ShoreIndices(k) \X g.V : xi[p[1]][p[2]] = 1})

\* Mutant of "1b": every node is in exactly one shore (== 1).
Uniqueness1bExactlyOne(g, k, xi) ==
    \A v \in g.V : ShoreSum(xi, ShoreIndices(k), v) = 1

\* "1b": for v in V: sum(e[i][v] for i in K) <= 1
Uniqueness1b(g, k, xi) ==
    \A v \in g.V : ShoreSum(xi, ShoreIndices(k), v) <= 1

\* Mutant of "1c": the inner sum runs over the later shores only (i < j).
Adjacency1cOneWay(g, k, xi) ==
    \A i \in ShoreIndices(k) : \A e \in g.E :
        xi[i][e[1]] + ShoreSum(xi, {j \in ShoreIndices(k) : i < j}, e[2]) <= 1

\* "1c": for i in K: for w, v in E: e[i][w] + sum(e[j][v] for j in K if i != j) <= 1
Adjacency1c(g, k, xi) ==
    \A i \in ShoreIndices(k) : \A e \in g.E :
        xi[i][e[1]] + ShoreSum(xi, ShoreIndices(k) \ {i}, e[2]) <= 1

\* Mutant of alt "b": the test i != j is dropped.
Adjacency1cAltBAllPairs(g, k, xi) ==
    \A i \in ShoreIndices(k) : \A j \in ShoreIndices(k) :
        \A e \in g.E : xi[i][e[1]] + xi[j][e[2]] <= 1

\* alt "b": for i, j in K, i != j: for w, v in E: e[i][w] + e[j][v] <= 1
Adjacency1cAltB(g, k, xi) ==
    \A i \in ShoreIndices(k) : \A j \in ShoreIndices(k) :
        i # j => \A e \in g.E : xi[i][e[1]] + xi[j][e[2]] <= 1

\* alt "c": for every l in combinations(K, 1..k_value): for w, v in E:
\*   sum(e[k1][w] for k1 in l) + sum(e[k2][v] for k2 in K - l) <= 1
Adjacency1cAltC(g, k, xi) ==
    \A l \in (SUBSET ShoreIndices(k)) \ {{}} : \A e \in g.E :
        ShoreSum(xi, l, e[1]) + ShoreSum(xi, ShoreIndices(k) \ l, e[2]) <= 1

\* Mutant of "1d": the bound is off by one.
Capacity1dLoose(g, k, b, xi) ==
    \A i \in ShoreIndices(k) : Cardinality({v \in g.V : xi[i][v] = 1}) <= b + 1

\* "1d": for i in K: sum(e[i][v] for v in V) <= b_value
Capacity1d(g, k, b, xi) ==
    \A i \in ShoreIndices(k) : Cardinality({v \in g.V : xi[i][v] = 1}) <= b

Feasible1(g, k, b, xi) ==
    Uniqueness1b(g, k, xi) /\ Adjacency1c(g, k, xi) /\ Capacity1d(g, k, b, xi)

Feasible1AltB(g, k, b, xi) ==
    Uniqueness1b(g, k, xi) /\ Adjacency1cAltB(g, k, xi) /\ Capacity1d(g, k, b, xi)

Feasible1AltC(g, k, b, xi) ==
    Uniqueness1b(g, k, xi) /\ Adjacency1cAltC(g, k, xi) /\ Capacity1d(g, k, b, xi)

\* "2a" and "2b" for one clique q; psi is the column y[.][q]:
\*   sum(y[i][q] for i in K) <= 1;  e[i][v] - y[i][q] <= 0 for v in q.
\* The constraints of different cliques share no psi variable, so a psi for
\* the model exists iff one exists for each clique.
Clique2a2b(g, k, xi, q) ==
    \E psi \in [ShoreIndices(k) -> {0, 1}] :
        /\ Cardinality({i \in ShoreIndices(k) : psi[i] = 1}) <= 1
        /\ \A i \in ShoreIndices(k) : \A v \in q : xi[i][v] - psi[i] <= 0

\* formulation 2 registers "2a", "2b" and "1d" (and no "1b"); Q is the list
\* of cliques computed once at the top of the encoder
Feasible2On(Q, g, k, b, xi) ==
    /\ \A q \in Q : Clique2a2b(g, k, xi, q)
    /\ Capacity1d(g, k, b, xi)

Feasible2(g, k, b, xi) == Feasible2On(FindCliques(g), g, k, b, xi)

NoneSolution == [kind |-> "None"]

\* solution = {'S': [], 'V': [[] for _ in K]}; v joins V[i] when e[i][v] is 1
\* and S when it joined no shore.
ExtractPartition(g, k, xi) ==
    [kind |-> "dict",
     S |-> {v \in g.V : \A i \in ShoreIndices(k) : xi[i][v] # 1},
     V |-> [i \in ShoreIndices(k) |-> {v \in g.V : xi[i][v] = 1}]]

\* ------------------------------------------------------------------------
\* Formulations 3 and 4: binary x[v]; a cover constraint is the node set c of
\* sum(x[v] for v in c) >= 1.
XSpace(g) == [g.V -> {0, 1}]

\* "3a": sum(x[v] for v in V), minimised
Objective3a(g, x) == Cardinality({v \in g.V : x[v] = 1})

SatisfiesCover(x, constraints) ==
    \A c \in constraints : Cardinality({v \in c : x[v] = 1}) >= 1

\* Mutant of ow: the component test is reversed (len(cc) < b_value).
PackingNumberReversed(g, w, b) ==
    LET gw == Subgraph(g, w)
    IN IF \E cc \in ConnectedComponents(gw) : Cardinality(cc) < b
       THEN Infinity
       ELSE NBinsToPack(gw, b)

\* ow of formulation 3: inf when a component of gw is larger than b_value,
\* else the oracle's bin count
PackingNumber(g, w, b) ==
    LET gw == Subgraph(g, w)
    IN IF \E cc \in ConnectedComponents(gw) : Cardinality(cc) > b
       THEN Infinity
       ELSE NBinsToPack(gw, b)

\* "3b": for w in W: if ow > k_value: add sum(x[v] for v in w) >= 1
Constraints3b(g, k, b) ==
    LET W == CandidateSubsets(NodeList(g.V))
    IN {Range(W[n]) : n \in {m \in 1..Len(W) : PackingNumber(g, Range(W[m]), b) > k}}

\* Mutant of "4": the component size is compared with the ignored argument.
Constraints4UsesK(g, k, b) ==
    LET W == CandidateSubsets(NodeList(g.V))
    IN UNION {{C \in ConnectedComponents(Subgraph(g, Range(W[n]))) :
                  Cardinality(C) = k + 1} : n \in 1..Len(W)}

\* "4": for w in W: for C in components(gw): if len(C) == b_value + 1: add C
Constraints4(g, k, b) ==
    LET W == CandidateSubsets(NodeList(g.V))
    IN UNION {{C \in ConnectedComponents(Subgraph(g, Range(W[n]))) :
                  Cardinality(C) = b + 1} : n \in 1..Len(W)}

\* solution = [v for v in V if x[v] == 1]
ExtractSeparator(g, x) == [kind |-> "list", S |-> {v \in g.V : x[v] = 1}]

\* sec_lazy of formulation_3_lazy at a MIPSOL event: w = nodes with value
\* < 0.1; the lazy constraints it injects for the incumbent x.
\* Mutant of w: the nodes with value above 0.1.
IncumbentChosen(g, x) == {v \in g.V : x[v] = 1}

IncumbentComplement(g, x) == {v \in g.V : x[v] = 0}

\* Mutant of sec_lazy: one constraint per component of gw, as formulation 4.
SecLazy3CutsPerComponent(g, k, b, x) ==
    LET w == IncumbentComplement(g, x)
    IN IF PackingNumber(g, w, b) > k
       THEN ConnectedComponents(Subgraph(g, w)) ELSE {}

SecLazy3Cuts(g, k, b, x) ==
    LET w == IncumbentComplement(g, x)
    IN IF PackingNumber(g, w, b) > k THEN {w} ELSE {}

\* Mutant of sec_lazy of formulation_4_lazy: the test is len(C) >= b_value.
SecLazy4CutsFromB(g, k, b, x) ==
    LET w == IncumbentComplement(g, x)
    IN {C \in ConnectedComponents(Subgraph(g, w)) : Cardinality(C) >= b}

\* sec_lazy of formulation_4_lazy: one constraint per component with more
\* than b_value nodes
SecLazy4Cuts(g, k, b, x) ==
    LET w == IncumbentComplement(g, x)
    IN {C \in ConnectedComponents(Subgraph(g, w)) : Cardinality(C) > b}

\* The optimal points the solver can end at for the eager encoders.
Optima1(g, k, b) ==
    LET obj(xi) == Objective1a(g, k, xi)
    IN ArgMax({xi \in XiSpace(g, k) : Feasible1(g, k, b, xi)}, obj)

Optima1AltB(g, k, b) ==
    LET obj(xi) == Objective1a(g, k, xi)
    IN ArgMax({xi \in XiSpace(g, k) : Feasible1AltB(g, k, b, xi)}, obj)

Optima1AltC(g, k, b) ==
    LET obj(xi) == Objective1a(g, k, xi)
    IN ArgMax({xi \in XiSpace(g, k) : Feasible1AltC(g, k, b, xi)}, obj)

Optima2(g, k, b) ==
    LET obj(xi) == Objective1a(g, k, xi)
        Q == FindCliques(g)
    IN ArgMax({xi \in XiSpace(g, k) : Feasible2On(Q, g, k, b, xi)}, obj)

OptimaCover(g, constraints) ==
    LET obj(x) == Objective3a(g, x)
    IN ArgMin({x \in XSpace(g) : SatisfiesCover(x, constraints)}, obj)

Optima3(g, k, b) == OptimaCover(g, Constraints3b(g, k, b))

Optima4(g, k, b) == OptimaCover(g, Constraints4(g, k, b))

\* Mutant of the status test: the status code is compared with the string
\* itself, which never matches.
ParseSolutionNever(st, extracted) == NoneSolution

\* if status == OPTIMAL: build and return the solution; else return None
ParseSolution(st, extracted) ==
    IF st = OptimalStatus THEN extracted ELSE NoneSolution

\* ------------------------------------------------------------------------
\* cvsp_solver: the table of encoders and the dispatch
\*   formulations.get(library_name)[formulation_index](graph, k, b, quiet)
Formulations ==
    [ortools |-> <<"formulation_1_ortools", "formulation_2_ortools",
                   "formulation_3_ortools", "formulation_4_ortools">>,
     gurobi |-> <<"formulation_1_gurobi", "formulation_1_alt_b_gurobi",
                  "formulation_1_alt_c_gurobi", "formulation_2_gurobi",
                  "formulation_3_gurobi", "formulation_3_lazy_gurobi",
                  "formulation_4_gurobi", "formulation_4_lazy_gurobi">>]

\* dict.get: None for a key that is not in the table
KnownLibrary(lib) == lib \in DOMAIN Formulations

\* list[index] of Python: a negative index counts from the end
IndexInList(list, index) == index >= 0 - Len(list) /\ index < Len(list)

ListItem(list, index) ==
    IF index >= 0 THEN list[index + 1] ELSE list[Len(list) + index + 1]

NoEncoder == "none"
NoError == "none"

\* Inputs: library names (one of them unknown), the indices of the longest
\* table, one past it, -1 and one below the longest table, K and B.
LibraryNames == {"ortools", "gurobi", "scip"}
LongestTable == Len(Formulations["gurobi"])
Indices == {0 - LongestTable - 1, 0 - 1} \cup (0..LongestTable)
KValues == 1..MaxK
BValues == 1..MaxB

\* The state before any call.
Idle ==
    /\ pc = "call"
    /\ encoder = NoEncoder
    /\ error = NoError
    /\ cover = {}
    /\ incumbent = {}
    /\ status = "LOADED"
    /\ solution = NoneSolution
    /\ num_bins = 0
    /\ node_list = << >>
    /\ w_family = << >>
    /\ printed = << >>
    /\ w_pos = 0
    /\ evaluated = << >>
    /\ where = "none"
    /\ rejections = 0
    /\ Detached

\* quiet keeps its default (quiet: bool = False).
Init ==
    /\ graph \in Graphs
    /\ library_name \in LibraryNames
    /\ formulation_index \in Indices
    /\ k_value \in KValues
    /\ b_value \in BValues
    /\ quiet = FALSE
    /\ Idle

inputs == <<graph, library_name, formulation_index, k_value, b_value, quiet>>
aside == <<num_bins, node_list, w_family, w_pos, evaluated>>
callback == <<where, rejections>>

CvspSolver ==
    /\ pc = "call"
    /\ IF ~KnownLibrary(library_name)
       THEN pc' = "raised" /\ error' = "TypeError" /\ encoder' = encoder
       ELSE IF ~IndexInList(Formulations[library_name], formulation_index)
       THEN pc' = "raised" /\ error' = "IndexError" /\ encoder' = encoder
       ELSE /\ pc' = "encoder"
            /\ encoder' = ListItem(Formulations[library_name], formulation_index)
            /\ error' = error
    /\ UNCHANGED <<inputs, shell, cover, incumbent, status, solution, aside, printed, callback>>

\* An encoder creates its variables, sets the objective and registers its
\* constraints; the live model then waits in model.optimize / solver.Solve.
\* cover holds the cover constraints of the live model (the model is a local
\* of the encoder and is gone when the encoder returns).
\* Before the solve the OR-Tools encoders print the problem definition
\* unless quiet.
OrtoolsEncoders == {Formulations["ortools"][n] : n \in 1..Len(Formulations["ortools"])}

\* if not quiet: print(...)
Say(messages) == IF quiet THEN printed ELSE printed \o messages

\* Mutant of the encoders: a quiet call skips the constraints.
RegisterQuietSkips(constraints) ==
    /\ pc = "encoder"
    /\ pc' = "optimize"
    /\ cover' = IF quiet THEN {} ELSE constraints
    /\ incumbent' = {}
    /\ printed' = IF encoder \in OrtoolsEncoders
                  THEN Say(<<"Problem definition:">>) ELSE printed
    /\ UNCHANGED <<inputs, shell, encoder, error, status, solution, aside, callback>>

Register(constraints) ==
    /\ pc = "encoder"
    /\ pc' = "optimize"
    /\ cover' = constraints
    /\ incumbent' = {}
    /\ printed' = IF encoder \in OrtoolsEncoders
                  THEN Say(<<"Problem definition:">>) ELSE printed
    /\ UNCHANGED <<inputs, shell, encoder, error, status, solution, aside, callback>>

Encoders1 == {"formulation_1_ortools", "formulation_1_gurobi"}
Encoders2 == {"formulation_2_ortools", "formulation_2_gurobi"}
Encoders3 == {"formulation_3_ortools", "formulation_3_gurobi"}
Encoders4 == {"formulation_4_ortools", "formulation_4_gurobi"}
LazyEncoders == {"formulation_3_lazy_gurobi", "formulation_4_lazy_gurobi"}

Formulation1 == encoder \in Encoders1 /\ Register({})

Formulation1AltB == encoder = "formulation_1_alt_b_gurobi" /\ Register({})

Formulation1AltC == encoder = "formulation_1_alt_c_gurobi" /\ Register({})

Formulation2 == encoder \in Encoders2 /\ Register({})

Formulation3 ==
    encoder \in Encoders3 /\ Register(Constraints3b(graph, k_value, b_value))

Formulation4 ==
    encoder \in Encoders4 /\ Register(Constraints4(graph, k_value, b_value))

\* The lazy encoders register no constraint and pass sec_lazy to optimize.
FormulationLazy == encoder \in LazyEncoders /\ Register({})

\* The optimal points of the live model of an eager encoder.
LiveOptima ==
    IF encoder \in Encoders1 THEN Optima1(graph, k_value, b_value)
    ELSE IF encoder = "formulation_1_alt_b_gurobi" THEN Optima1AltB(graph, k_value, b_value)
    ELSE IF encoder = "formulation_1_alt_c_gurobi" THEN Optima1AltC(graph, k_value, b_value)
    ELSE IF encoder \in Encoders2 THEN Optima2(graph, k_value, b_value)
    ELSE OptimaCover(graph, cover)

\* What the encoder builds from the solved variables.
Extract(point) ==
    IF encoder \in Encoders3 \cup Encoders4 \cup LazyEncoders
    THEN ExtractSeparator(graph, point)
    ELSE ExtractPartition(graph, k_value, point)

\* The solve ends and the encoder returns: it parses the solution from the
\* solved variables when the status is OPTIMAL and returns None otherwise.
\* incumbent keeps the values that were read.
Return(outcomes) ==
    /\ pc = "optimize"
    /\ \E out \in outcomes :
          /\ status' = out.status
          /\ incumbent' = IF out.status = OptimalStatus THEN {out.point} ELSE {}
          /\ solution' = ParseSolution(out.status, Extract(out.point))
    /\ printed' = Say(<<IF encoder \in OrtoolsEncoders
                        THEN "Advanced usage:" ELSE "Solution found in">>
                      \o (IF status' = OptimalStatus THEN << >>
                          ELSE <<"The problem does not have an optimal solution.">>))
    /\ cover' = {}
    /\ where' = "none"
    /\ pc' = "done"
    /\ UNCHANGED <<inputs, shell, encoder, error, aside, rejections>>

Optimize ==
    /\ encoder \notin LazyEncoders
    /\ Return(SolveOutcomes(LiveOptima))

\* The solver reaches an integer point x that satisfies every constraint of
\* the live model and improves on the incumbent, and fires the callback with
\* where = MIPSOL.  A point for which the callback injects a constraint is
\* cut off; any other becomes the incumbent.
Improves(x) == \A inc \in incumbent : Objective3a(graph, x) < Objective3a(graph, inc)

MipSol(cuts(_)) ==
    /\ pc = "optimize"
    /\ rejections <= 2 ^ Cardinality(graph.V)
    /\ \E x \in XSpace(graph) :
          /\ SatisfiesCover(x, cover)
          /\ Improves(x)
          /\ LET injected == cuts(x)
             IN /\ cover' = cover \cup injected
                /\ incumbent' = IF injected = {} THEN {x} ELSE incumbent
                /\ rejections' = IF injected = {} THEN rejections ELSE rejections + 1
    /\ where' = "MIPSOL"
    /\ UNCHANGED <<inputs, shell, pc, encoder, error, status, solution, aside, printed>>

SecLazy3 ==
    /\ encoder = "formulation_3_lazy_gurobi"
    /\ LET cuts(x) == SecLazy3Cuts(graph, k_value, b_value, x) IN MipSol(cuts)

SecLazy4 ==
    /\ encoder = "formulation_4_lazy_gurobi"
    /\ LET cuts(x) == SecLazy4Cuts(graph, k_value, b_value, x) IN MipSol(cuts)

\* model.optimize(sec_lazy) returns: OPTIMAL once no point of the live model
\* improves on the incumbent, INFEASIBLE when the live model has no point,
\* or the search is stopped.
LazyOutcomes ==
    {[status |-> "INTERRUPTED", point |-> NoPoint]}
    \cup (IF \A x \in XSpace(graph) : ~SatisfiesCover(x, cover)
          THEN {[status |-> "INFEASIBLE", point |-> NoPoint]}
          ELSE IF \E x \in XSpace(graph) : SatisfiesCover(x, cover) /\ Improves(x)
          THEN {}
          ELSE {[status |-> OptimalStatus, point |-> inc] : inc \in incumbent})

LazyReturn ==
    /\ encoder \in LazyEncoders
    /\ Return(LazyOutcomes)

Next ==
    \/ CvspSolver
    \/ Formulation1
    \/ Formulation1AltB
    \/ Formulation1AltC
    \/ Formulation2
    \/ Formulation3
    \/ Formulation4
    \/ FormulationLazy
    \/ Optimize
    \/ SecLazy3
    \/ SecLazy4
    \/ LazyReturn

Spec == Init /\ [][Next]_vars

\* The same calls with either value of quiet, for the largest K.
InitQuiet ==
    /\ graph \in Graphs
    /\ library_name \in LibraryNames
    /\ formulation_index \in Indices
    /\ k_value = MaxK
    /\ b_value \in BValues
    /\ quiet \in BOOLEAN
    /\ Idle

SpecQuiet == InitQuiet /\ [][Next]_vars

\* The lazy encoders with every callback event: the calls that select
\* formulation_3_lazy_gurobi or formulation_4_lazy_gurobi, for the largest K.
InitLazy ==
    /\ graph \in Graphs
    /\ library_name = "gurobi"
    /\ formulation_index \in 0..(Len(Formulations[library_name]) - 1)
    /\ ListItem(Formulations[library_name], formulation_index) \in LazyEncoders
    /\ k_value = MaxK
    /\ b_value \in BValues
    /\ quiet = FALSE
    /\ Idle

\* sec_lazy called with where other than MIPSOL (here a node event): the
\* callback falls through to "return True".
OtherCallback ==
    /\ pc = "optimize"
    /\ encoder \in LazyEncoders
    /\ where # "MIPNODE"
    /\ where' = "MIPNODE"
    /\ UNCHANGED <<inputs, shell, pc, encoder, error, cover, incumbent, status, solution,
                   aside, printed, rejections>>

NextLazy ==
    \/ CvspSolver
    \/ FormulationLazy
    \/ SecLazy3
    \/ SecLazy4
    \/ OtherCallback
    \/ LazyReturn

\* model.optimize does not stop calling back or return without cause.
SpecLazy == InitLazy /\ [][NextLazy]_vars /\ WF_vars(NextLazy)

\* The calls that select a formulation 1 or formulation 2 encoder.
InitEncodings ==
    /\ graph \in Graphs
    /\ library_name \in DOMAIN Formulations
    /\ formulation_index \in 0..(Len(Formulations[library_name]) - 1)
    /\ ListItem(Formulations[library_name], formulation_index)
          \in Encoders1 \cup Encoders2
              \cup {"formulation_1_alt_b_gurobi", "formulation_1_alt_c_gurobi"}
    /\ k_value \in KValues
    /\ b_value \in BValues
    /\ quiet = FALSE
    /\ Idle

NextEncodings ==
    \/ CvspSolver
    \/ Formulation1
    \/ Formulation1AltB
    \/ Formulation1AltC
    \/ Formulation2
    \/ Optimize

SpecEncodings == InitEncodings /\ [][NextEncodings]_vars

\* ------------------------------------------------------------------------
\* The packing oracle on its own: n_bins_to_pack(graph, bin_size) called, as
\* formulation 3 calls it, on a graph whose components have at most bin_size
\* nodes.  The inputs are the disjoint unions of paths on 1..n.
RECURSIVE Compositions(_)
Compositions(n) ==
    IF n = 0 THEN {<< >>}
    ELSE UNION {{<<first>> \o rest : rest \in Compositions(n - first)} : first \in 1..n}

RECURSIVE PathEdges(_, _)
PathEdges(sizes, offset) ==
    IF sizes = << >> THEN {}
    ELSE {<<offset + i, offset + i + 1>> : i \in 1..(Head(sizes) - 1)}
         \cup PathEdges(Tail(sizes), offset + Head(sizes))

OracleGraphs ==
    UNION {{[V |-> 1..n, E |-> PathEdges(sizes, 0)] : sizes \in Compositions(n)} :
           n \in 0..MaxOracleNodes}

InitOracle ==
    /\ graph \in OracleGraphs
    /\ b_value \in BValues
    /\ \A cc \in ConnectedComponents(graph) : Cardinality(cc) <= b_value
    /\ library_name = "gurobi"
    /\ formulation_index = 0
    /\ k_value = MaxK
    /\ quiet = FALSE
    /\ Idle

NBinsToPackCall ==
    /\ pc = "call"
    /\ num_bins' = NBinsToPack(graph, b_value)
    /\ pc' = "done"
    /\ UNCHANGED <<inputs, shell, encoder, error, cover, incumbent, status, solution,
                   node_list, w_family, w_pos, evaluated, printed, callback>>

NextOracle == NBinsToPackCall

SpecOracle == InitOracle /\ [][NextOracle]_vars

\* ------------------------------------------------------------------------
\* The constraint loop of formulation 3 (eager) one subset at a time, with
\* the oracle's own solve free to end without an optimum.
InitCover3 ==
    /\ graph \in Graphs
    /\ library_name \in DOMAIN Formulations
    /\ formulation_index \in 0..(Len(Formulations[library_name]) - 1)
    /\ ListItem(Formulations[library_name], formulation_index) \in Encoders3
    /\ k_value \in KValues
    /\ b_value \in BValues
    /\ quiet = FALSE
    /\ Idle

\* W = []; for subset_size in range(1, len(V)): W.extend(combinations(...))
BuildCandidates3 ==
    /\ pc = "encoder"
    /\ encoder \in Encoders3
    /\ node_list' = NodeList(graph.V)
    /\ w_family' = CandidateSubsets(NodeList(graph.V))
    /\ w_pos' = 1
    /\ pc' = "loop"
    /\ UNCHANGED <<inputs, shell, encoder, error, cover, incumbent, status, solution,
                   num_bins, evaluated, printed, callback>>

\* any(len(cc_nodes) > b_value for cc_nodes in nx.connected_components(gw))
Oversized(g, w, b) ==
    \E cc \in ConnectedComponents(Subgraph(g, w)) : Cardinality(cc) > b

\* Mutant of the oracle's else branch: num_bins = 0 in place of inf.
NumBinsZeroOnFailure(st, g, bin_size) ==
    IF st = OptimalStatus THEN NBinsToPack(g, bin_size) ELSE 0

\* The oracle's return value: the bins counted when its solve ended
\* OPTIMAL, else inf.
NumBins(st, g, bin_size) ==
    IF st = OptimalStatus THEN NBinsToPack(g, bin_size) ELSE Infinity

\* Mutant of the test on ow: >= in place of >.
AddsConstraintFromK(ow, k) == ow >= k

\* if ow > k_value: add the constraint of w
AddsConstraint(ow, k) == ow > k

\* One pass of "for w in W" with the value ow it computed.
Evaluate3(oracle_status, ow) ==
    LET w == Range(w_family[w_pos])
    IN /\ cover' = IF AddsConstraint(ow, k_value) THEN cover \cup {w} ELSE cover
       /\ evaluated' = Append(evaluated, [w |-> w, oracle |-> oracle_status, ow |-> ow])
       /\ w_pos' = w_pos + 1
       /\ UNCHANGED <<inputs, shell, pc, encoder, error, incumbent, status, solution,
                      node_list, w_family, printed, callback>>

InLoop3 == pc = "loop" /\ w_pos <= Len(w_family)

OracleFailures == Cardinality({n \in 1..Len(evaluated) : evaluated[n].oracle = "INTERRUPTED"})

\* A component of gw is too large: ow = inf, the oracle is not called.
OversizedSubset3 ==
    /\ InLoop3
    /\ Oversized(graph, Range(w_family[w_pos]), b_value)
    /\ num_bins' = num_bins
    /\ Evaluate3("not called", Infinity)

\* ow = n_bins_to_pack(gw, b_value), the oracle's solve ending OPTIMAL.
OracleOptimal3 ==
    /\ InLoop3
    /\ ~Oversized(graph, Range(w_family[w_pos]), b_value)
    /\ LET ow == NumBins(OptimalStatus, Subgraph(graph, Range(w_family[w_pos])), b_value)
       IN num_bins' = ow /\ Evaluate3(OptimalStatus, ow)

\* The same call, the oracle's solve stopped before optimality.
OracleFails3 ==
    /\ InLoop3
    /\ ~Oversized(graph, Range(w_family[w_pos]), b_value)
    /\ OracleFailures < MaxOracleFailures
    /\ LET ow == NumBins("INTERRUPTED", Subgraph(graph, Range(w_family[w_pos])), b_value)
       IN num_bins' = ow /\ Evaluate3("INTERRUPTED", ow)

\* The loop is over; the model goes to the solver.
LoopDone3 ==
    /\ pc = "loop"
    /\ w_pos > Len(w_family)
    /\ pc' = "optimize"
    /\ printed' = IF encoder \in OrtoolsEncoders
                  THEN Say(<<"Problem definition:">>) ELSE printed
    /\ UNCHANGED <<inputs, shell, encoder, error, cover, incumbent, status, solution,
                   aside, callback>>

NextCover3 ==
    \/ CvspSolver
    \/ BuildCandidates3
    \/ OversizedSubset3
    \/ OracleOptimal3
    \/ OracleFails3
    \/ LoopDone3
    \/ Optimize

SpecCover3 == InitCover3 /\ [][NextCover3]_vars

\* ------------------------------------------------------------------------
\* The subset enumerators on their own: the family W of the encoders of
\* src/src/cvsp.py and subsets(nodes) of src/cvsp.py.
RECURSIVE Subsets(_)
Subsets(list) ==
    IF Len(list) = 0 THEN << << >> >>
    ELSE LET x == Subsets(Tail(list))
         IN [i \in 1..Len(x) |-> <<Head(list)>> \o x[i]] \o x

\* The node lists: the orderings of the subsets of 1..MaxListLen.
NodeLists ==
    UNION {{l \in [1..n -> 1..MaxListLen] : \A i \in 1..n : \A j \in 1..n : i # j => l[i] # l[j]} :
           n \in 0..MaxListLen}

InitSubsets ==
    /\ node_list \in NodeLists
    /\ graph = [V |-> Range(node_list), E |-> {}]
    /\ library_name = "gurobi"
    /\ formulation_index = 0
    /\ k_value = MaxK
    /\ b_value = MaxB
    /\ pc = "call"
    /\ encoder = NoEncoder
    /\ error = NoError
    /\ cover = {}
    /\ incumbent = {}
    /\ status = "LOADED"
    /\ solution = NoneSolution
    /\ num_bins = 0
    /\ w_family = << >>
    /\ quiet = FALSE
    /\ printed = << >>
    /\ w_pos = 0
    /\ evaluated = << >>
    /\ where = "none"
    /\ rejections = 0
    /\ Detached

BuildW ==
    /\ pc = "call"
    /\ w_family' = CandidateSubsets(node_list)
    /\ pc' = "w_built"
    /\ UNCHANGED <<inputs, shell, encoder, error, cover, incumbent, status, solution,
                   num_bins, node_list, w_pos, evaluated, printed, callback>>

SubsetsCall ==
    /\ pc = "call"
    /\ w_family' = Subsets(node_list)
    /\ pc' = "subsets_returned"
    /\ UNCHANGED <<inputs, shell, encoder, error, cover, incumbent, status, solution,
                   num_bins, node_list, w_pos, evaluated, printed, callback>>

NextSubsets == BuildW \/ SubsetsCall

SpecSubsets == InitSubsets /\ [][NextSubsets]_vars

\* ------------------------------------------------------------------------
\* Properties.
Returned == pc = "done"
Solved == pc = "done" /\ status = OptimalStatus

Lazy3 == "formulation_3_lazy_gurobi"
Lazy4 == "formulation_4_lazy_gurobi"
SubsetCoverEncoders == Encoders3 \cup Encoders4 \cup {Lazy3, Lazy4}
PartitionEncoders ==
    {"formulation_1_ortools", "formulation_1_gurobi", "formulation_1_alt_b_gurobi",
     "formulation_1_alt_c_gurobi", "formulation_2_ortools", "formulation_2_gurobi"}

\* A call that names a library of the table and an index within 0..n-1.
ValidCall ==
    /\ KnownLibrary(library_name)
    /\ formulation_index \in 0..(Len(Formulations[library_name]) - 1)

\* The components left when the node set S is removed from g.
Remaining(g, S) == ConnectedComponents(Subgraph(g, g.V \ S))

\* C1: whenever formulation 3 or 4, eager or lazy, returns a node list S for
\* K >= 2, every connected component of the graph without S has at most B
\* nodes.
SeparatorValidity ==
    (Returned /\ ValidCall /\ solution.kind = "list" /\ k_value >= 2)
        => \A cc \in Remaining(graph, solution.S) : Cardinality(cc) <= b_value

\* C2: a returned partition {S, V[0..K-1]} covers the node set, its parts are
\* pairwise disjoint, every shore has at most B nodes, and v is listed in
\* shore i exactly when xi[i][v] = 1 and in S exactly when no xi[i][v] = 1.
PartitionValidity ==
    (Returned /\ solution.kind = "dict")
        => /\ DOMAIN solution.V = ShoreIndices(k_value)
           /\ solution.S \cup UNION {solution.V[i] : i \in ShoreIndices(k_value)} = graph.V
           /\ \A i \in ShoreIndices(k_value) :
                 /\ solution.S \cap solution.V[i] = {}
                 /\ Cardinality(solution.V[i]) <= b_value
                 /\ \A j \in ShoreIndices(k_value) :
                       i # j => solution.V[i] \cap solution.V[j] = {}
           /\ \A xi \in incumbent : \A v \in graph.V :
                 /\ \A i \in ShoreIndices(k_value) : v \in solution.V[i] <=> xi[i][v] = 1
                 /\ v \in solution.S <=> \A i \in ShoreIndices(k_value) : xi[i][v] # 1
           /\ incumbent # {}

PartitionWitness ==
    /\ Returned /\ solution.kind = "dict"
    /\ solution.S # {}
    /\ \E i \in ShoreIndices(k_value) : \E j \in ShoreIndices(k_value) :
          i # j /\ solution.V[i] # {} /\ solution.V[j] # {}
    /\ \E i \in ShoreIndices(k_value) : Cardinality(solution.V[i]) = b_value

\* C3: in a returned partition the two ends of every edge that lie outside S
\* are listed in the same shore.
NoCrossShoreEdges ==
    (Returned /\ solution.kind = "dict")
        => \A e \in graph.E :
              (e[1] \notin solution.S /\ e[2] \notin solution.S)
                  => \E i \in ShoreIndices(k_value) :
                        e[1] \in solution.V[i] /\ e[2] \in solution.V[i]

NoCrossShoreEdgesWitness ==
    /\ Returned /\ solution.kind = "dict"
    /\ \E e \in graph.E : \E i \in ShoreIndices(k_value) :
          e[1] \in solution.V[i] /\ e[2] \in solution.V[i]
    /\ \E e \in graph.E : e[1] \in solution.S \/ e[2] \in solution.S

\* The least number of bins of capacity b that hold the connected components
\* of g, each component one item that weighs its node count.
ComponentBins(g, b) ==
    LET items == ConnectedComponents(g)
        bins == 1..Cardinality(items)
        fits(f) == \A j \in bins : Cardinality(UNION {c \in items : f[c] = j}) <= b
        used(f) == Cardinality({f[c] : c \in items})
        packings == {f \in [items -> bins] : fits(f)}
    IN IF packings = {} THEN Infinity ELSE SetMin({used(f) : f \in packings})

\* C4: for a graph whose components all have at most B nodes, the oracle
\* returns the least number of capacity-B bins that hold the components as
\* indivisible items.
OracleCorrect ==
    Returned => num_bins = ComponentBins(graph, b_value)

\* C5: for K >= 2 the separator returned by the lazy formulation 3 has the
\* size of the separators the eager formulation 3 returns on the same input.
LazyEagerEquivalence3 ==
    (Solved /\ ValidCall /\ encoder = Lazy3 /\ k_value >= 2)
        => \A x \in Optima3(graph, k_value, b_value) :
              Objective3a(graph, x) = Cardinality(solution.S)

\* C6: a call with an unknown library name, or with an index outside 0..n-1
\* for the library's n formulations, raises before any encoder is selected.
InvalidFormulationRejected ==
    ~ValidCall => (pc \in {"call", "raised"} /\ encoder = NoEncoder)

\* C7: an encoder returns None exactly when the solver's status is not
\* OPTIMAL and a whole solution exactly when it is; a status other than
\* OPTIMAL raises no error and returns no part of a solution.
NoSolutionSignal ==
    /\ Returned => (solution = NoneSolution <=> status # OptimalStatus)
    /\ status \in NonOptimalStatuses
          => (pc = "done" /\ error = NoError /\ solution = NoneSolution)
    /\ status = OptimalStatus
          => /\ pc = "done" /\ error = NoError
             /\ solution.kind \in {"dict", "list"}
             /\ solution.kind = "dict" <=> encoder \in PartitionEncoders
             /\ solution.kind = "list" <=> encoder \in SubsetCoverEncoders
             /\ solution.S \subseteq graph.V

NoSolutionWitness ==
    /\ Returned /\ status = "INTERRUPTED" /\ solution = NoneSolution
    /\ encoder \in LazyEncoders

\* C8: the enumerated family consists of exactly 2^n - 1 subsets of the n
\* nodes, all non-empty and pairwise distinct, every non-empty subset once.
EnumeratorComplete ==
    pc \in {"w_built", "subsets_returned"}
        => /\ Len(w_family) = 2 ^ Len(node_list) - 1
           /\ \A i \in 1..Len(w_family) : w_family[i] # << >>
           /\ \A i \in 1..Len(w_family) : \A j \in 1..Len(w_family) :
                 i # j => Range(w_family[i]) # Range(w_family[j])
           /\ {Range(w_family[i]) : i \in 1..Len(w_family)}
                 = (SUBSET Range(node_list)) \ {{}}

\* The sizes of the separators an encoder can return on (g, k, b): the
\* optima of the eager model, and for a lazy encoder the least points that
\* its callback accepts.
ReturnSizes(enc, g, k, b) ==
    LET obj(x) == Objective3a(g, x)
        points == IF enc \in Encoders3 THEN Optima3(g, k, b)
                  ELSE IF enc \in Encoders4 THEN Optima4(g, k, b)
                  ELSE IF enc = Lazy3
                  THEN ArgMin({x \in XSpace(g) : SecLazy3Cuts(g, k, b, x) = {}}, obj)
                  ELSE ArgMin({x \in XSpace(g) : SecLazy4Cuts(g, k, b, x) = {}}, obj)
    IN {obj(x) : x \in points}

\* C9: for a fixed graph and K, a formulation 3 or 4 encoder (eager or lazy)
\* returns with capacity B' >= B a separator no larger than with capacity B.
MonotoneInB ==
    (Solved /\ encoder \in SubsetCoverEncoders)
        => /\ ReturnSizes(encoder, graph, k_value, b_value) = {Cardinality(solution.S)}
           /\ \A b2 \in BValues :
                 b2 >= b_value
                     => \A s2 \in ReturnSizes(encoder, graph, k_value, b2) :
                           s2 <= Cardinality(solution.S)

MonotoneWitness ==
    /\ Solved /\ encoder \in SubsetCoverEncoders
    /\ \E b2 \in BValues :
          /\ b2 > b_value
          /\ \E s2 \in ReturnSizes(encoder, graph, k_value, b2) :
                s2 < Cardinality(solution.S)

\* C10: the constraints of formulation 4 and the size of the separator it
\* returns are the same for every value of the K argument: the eager model
\* is the one built for any other K, every constraint the lazy callback
\* injects is a connected node set of more than B nodes whatever K is, and
\* the returned size is the size returned for any other K.
F4IgnoresK ==
    /\ (pc = "optimize" /\ encoder \in Encoders4)
          => \A k2 \in KValues : cover = Constraints4(graph, k2, b_value)
    /\ encoder = Lazy4
          => \A c \in cover :
                Cardinality(c) > b_value /\ ConnectedComponents(Subgraph(graph, c)) = {c}
    /\ (Solved /\ encoder \in Encoders4 \cup {Lazy4})
          => \A k2 \in KValues :
                ReturnSizes(encoder, graph, k2, b_value) = {Cardinality(solution.S)}

F4IgnoresKWitness ==
    /\ Solved /\ encoder \in Encoders4 \cup {Lazy4}
    /\ solution.S # {}
    /\ k_value = MaxK

\* The constraints an encoder registers before the solve, and the points its
\* solve can end at with status OPTIMAL, as functions of (graph, K, B) alone.
RegisteredCover(enc, g, k, b) ==
    IF enc \in Encoders3 THEN Constraints3b(g, k, b)
    ELSE IF enc \in Encoders4 THEN Constraints4(g, k, b)
    ELSE {}

OptimaOf(enc, g, k, b) ==
    LET obj(x) == Objective3a(g, x)
    IN IF enc \in Encoders1 THEN Optima1(g, k, b)
       ELSE IF enc = "formulation_1_alt_b_gurobi" THEN Optima1AltB(g, k, b)
       ELSE IF enc = "formulation_1_alt_c_gurobi" THEN Optima1AltC(g, k, b)
       ELSE IF enc \in Encoders2 THEN Optima2(g, k, b)
       ELSE IF enc \in Encoders3 THEN Optima3(g, k, b)
       ELSE IF enc \in Encoders4 THEN Optima4(g, k, b)
       ELSE IF enc = Lazy3
       THEN ArgMin({x \in XSpace(g) : SecLazy3Cuts(g, k, b, x) = {}}, obj)
       ELSE ArgMin({x \in XSpace(g) : SecLazy4Cuts(g, k, b, x) = {}}, obj)

\* C11: quiet gates printing only: a quiet call prints nothing and any other
\* call that reaches an encoder's return prints; whatever quiet is, the
\* registered constraints, the points the solve can end at and the returned
\* solution are those determined by (encoder, graph, K, B).
QuietNoEffect ==
    /\ quiet => printed = << >>
    /\ (~quiet /\ Returned) => printed # << >>
    /\ (pc = "optimize" /\ encoder \notin LazyEncoders)
          => cover = RegisteredCover(encoder, graph, k_value, b_value)
    /\ (Solved /\ encoder \in LazyEncoders)
          => incumbent \subseteq OptimaOf(encoder, graph, k_value, b_value)
    /\ Solved
          => /\ incumbent # {}
             /\ \A p \in incumbent : solution = Extract(p)
    /\ (Returned /\ ~Solved) => solution = NoneSolution

QuietWitness ==
    /\ quiet /\ Solved
    /\ encoder \in Encoders3
    /\ solution.S # {}
    /\ printed = << >>

\* C12: in a returned partition every non-empty shore induces a connected
\* subgraph of the input graph.
ShoresConnected ==
    (Returned /\ ValidCall /\ solution.kind = "dict")
        => \A i \in ShoreIndices(k_value) :
              solution.V[i] # {}
                  => ConnectedComponents(Subgraph(graph, solution.V[i])) = {solution.V[i]}

\* C13: for K >= 2 the separator returned by formulation 3 has |V| minus the
\* greatest number of nodes formulation 1 places in shores.
SameMinimum13 ==
    (Solved /\ ValidCall /\ encoder \in Encoders3 \cup {Lazy3} /\ k_value >= 2)
        => \A xi \in Optima1(graph, k_value, b_value) :
              Cardinality(solution.S)
                  = Cardinality(graph.V) - Objective1a(graph, k_value, xi)

\* The objective values of a set of points.
Values1a(g, k, points) == {Objective1a(g, k, xi) : xi \in points}

CliqueEncodingEquivalent ==
    (pc = "optimize" /\ encoder \in Encoders2)
        => /\ LET Q == FindCliques(graph)
              IN \A xi \in XiSpace(graph, k_value) :
                    /\ Feasible2On(Q, graph, k_value, b_value, xi)
                          <=> Feasible1(graph, k_value, b_value, xi)
                    /\ Feasible2On(Q, graph, k_value, b_value, xi)
                          => /\ Uniqueness1b(graph, k_value, xi)
                             /\ Capacity1d(graph, k_value, b_value, xi)
           /\ Values1a(graph, k_value, LiveOptima)
                 = Values1a(graph, k_value, Optima1(graph, k_value, b_value))

CliqueEncodingWitness ==
    /\ pc = "optimize" /\ encoder \in Encoders2
    /\ k_value >= 2 /\ graph.E # {}
    /\ \E v \in graph.V : Neighbours(graph, v) = {}
    /\ \E xi \in XiSpace(graph, k_value) :
          Capacity1d(graph, k_value, b_value, xi) /\ ~Feasible2(graph, k_value, b_value, xi)

\* C16: in eager formulation 3 the constraint of an enumerated subset w is
\* in the model iff a component of the subgraph on w has more than B nodes
\* or the value returned by the oracle exceeds K; the oracle is called
\* exactly for the subsets without such a component (tested on the subset
\* evaluated last, the records before it being kept as they were); no other
\* constraint is in the model; without oracle failures the model is that of
\* "3b".
ConstraintRule3 ==
    pc \in {"loop", "optimize"}
        => /\ Len(evaluated) = w_pos - 1
           /\ \A n \in 1..Len(evaluated) :
                 LET r == evaluated[n]
                 IN /\ r.w = Range(w_family[n])
                    /\ r.w \in cover <=> (r.oracle = "not called" \/ r.ow > k_value)
                    /\ r.oracle = "not called" => r.ow = Infinity
                    /\ n = Len(evaluated)
                          => /\ r.oracle = "not called" <=> Oversized(graph, r.w, b_value)
                             /\ r.oracle = OptimalStatus => r.ow = num_bins
           /\ cover \subseteq {evaluated[n].w : n \in 1..Len(evaluated)}
           /\ (pc = "optimize" /\ OracleFailures = 0)
                 => cover = Constraints3b(graph, k_value, b_value)

ConstraintRuleWitness ==
    /\ pc = "optimize" /\ OracleFailures = 0
    /\ \E n \in 1..Len(evaluated) : evaluated[n].oracle = "not called"
    /\ \E n \in 1..Len(evaluated) :
          evaluated[n].oracle = OptimalStatus /\ evaluated[n].ow > k_value
    /\ \E n \in 1..Len(evaluated) : evaluated[n].w \notin cover

\* C17: when the oracle's solve ends without an optimum it returns the
\* infinite sentinel and the constraint of that subset is added; the loop
\* goes on over the remaining subsets and the solve is reached; no
\* constraint of a failure-free run is missing.
OracleFailureFailSafe ==
    /\ \A n \in 1..Len(evaluated) :
          evaluated[n].oracle = "INTERRUPTED"
              => /\ evaluated[n].ow = Infinity
                 /\ pc \in {"loop", "optimize"} => evaluated[n].w \in cover
                 /\ pc \in {"loop", "optimize", "done"}
                 /\ error = NoError
    /\ pc = "loop" => (InLoop3 \/ w_pos = Len(w_family) + 1)
    /\ pc = "loop" => Len(evaluated) = w_pos - 1
    /\ pc \in {"optimize", "done"} => Len(evaluated) = Len(w_family)
    /\ pc \in {"loop", "optimize"}
          => \A n \in 1..Len(evaluated) :
                (evaluated[n].oracle = "not called" \/ evaluated[n].ow > k_value)
                    => evaluated[n].w \in cover

OracleFailureWitness ==
    /\ Solved
    /\ \E n \in 1..Len(evaluated) :
          /\ evaluated[n].oracle = "INTERRUPTED"
          /\ n < Len(evaluated)
          /\ NBinsToPack(Subgraph(graph, evaluated[n].w), b_value) <= k_value

\* Before any incumbent was cut off the lazy model has no cover constraint
\* (cvsp.py 747-755 register none).
ProtocolStart3 ==
    (encoder = Lazy3 /\ rejections = 0) => cover = {}

\* One callback event of sec_lazy of formulation_3_lazy (cvsp.py 757-777).
ProtocolStep3 ==
    (encoder = Lazy3 /\ pc = "optimize" /\ pc' = "optimize")
        => IF where' = "MIPSOL"
           THEN \E x \in XSpace(graph) :
                   /\ SatisfiesCover(x, cover)
                   /\ LET w == {v \in graph.V : x[v] = 0}
                      IN IF \/ Oversized(graph, w, b_value)
                            \/ NBinsToPack(Subgraph(graph, w), b_value) > k_value
                         THEN /\ cover' = cover \cup {w}
                              /\ w \notin cover
                              /\ incumbent' = incumbent
                         ELSE /\ cover' = cover
                              /\ incumbent' = {x}
           ELSE cover' = cover /\ incumbent' = incumbent

\* C18: formulation_3_lazy has no cover constraint before an incumbent was
\* cut off; a MIPSOL event with incumbent x takes w = the nodes with value 0
\* and either injects the one constraint of w (w has a component of more
\* than B nodes or the oracle's count for w exceeds K) and keeps the old
\* incumbent, or injects nothing and accepts x; any other event injects
\* nothing.
LazyProtocol3 == []ProtocolStart3 /\ [][ProtocolStep3]_vars

LazyProtocolWitness ==
    /\ encoder = Lazy3 /\ pc = "optimize"
    /\ where = "MIPNODE"
    /\ cover # {} /\ incumbent # {}

\* C19: the separator returned by the lazy formulation 4 has the size of the
\* separators the eager formulation 4 returns on the same input.
LazyEagerEquivalence4 ==
    (Solved /\ ValidCall /\ encoder = Lazy4)
        => \A x \in Optima4(graph, k_value, b_value) :
              Objective3a(graph, x) = Cardinality(solution.S)

\* An injected constraint is violated by the incumbent that triggered it.
CutExcludesIncumbent ==
    (encoder \in LazyEncoders /\ pc = "optimize" /\ pc' = "optimize" /\ cover' # cover)
        => /\ rejections' = rejections + 1
           /\ \E x \in XSpace(graph) :
                 /\ SatisfiesCover(x, cover)
                 /\ ~SatisfiesCover(x, cover')
                 /\ \A c \in cover' \ cover : \A v \in c : x[v] = 0

\* C20: every constraint the lazy callbacks inject has all its variables 0
\* in the incumbent that triggered it, which satisfied the constraints
\* before it and violates the new one; at most 2^|V| incumbents are cut
\* off; the solve ends.
LazyLoopTerminates ==
    /\ [](rejections <= 2 ^ Cardinality(graph.V))
    /\ [][CutExcludesIncumbent]_vars
    /\ <>(pc = "done")

LazyLoopWitness ==
    /\ Solved /\ encoder \in LazyEncoders
    /\ rejections >= 2
    /\ solution.S # {}

\* The acceptance test of a lazy callback for the separator x: no component
\* of the nodes with value 0 has more than B nodes and, for formulation 3,
\* the oracle's bin count for them is at most K.
Acceptable(enc, g, k, b, x) ==
    LET gw == Subgraph(g, {v \in g.V : x[v] = 0})
    IN /\ \A cc \in ConnectedComponents(gw) : Cardinality(cc) <= b
       /\ enc = Lazy3 => NBinsToPack(gw, b) <= k

\* A step that injects constraints keeps every acceptable separator.
CutKeepsAcceptable ==
    (encoder \in LazyEncoders /\ pc = "optimize" /\ cover' # cover)
        => \A x \in XSpace(graph) :
              Acceptable(encoder, graph, k_value, b_value, x)
                  => SatisfiesCover(x, cover' \ cover)

\* The separator a lazy encoder returns is acceptable and no acceptable
\* separator is smaller.
AcceptedIsMinimum ==
    (Solved /\ encoder \in LazyEncoders)
        => /\ \E x \in XSpace(graph) :
                 /\ Acceptable(encoder, graph, k_value, b_value, x)
                 /\ solution.S = {v \in graph.V : x[v] = 1}
           /\ \A x \in XSpace(graph) :
                 Acceptable(encoder, graph, k_value, b_value, x)
                     => Objective3a(graph, x) >= Cardinality(solution.S)

AllZero(g, k) == [i \in ShoreIndices(k) |-> [v \in g.V |-> 0]]

AllOne(g) == [v \in g.V |-> 1]

\* C22: for K >= 2 the all-zero assignment satisfies the constraints of
\* formulations 1, 1 alt b, 1 alt c and 2, every cover constraint of
\* formulations 3 and 4 (eager or lazy) ranges over a non-empty node set and
\* is satisfied by the all-one assignment, and no solve ends INFEASIBLE.
EveryModelFeasible ==
    k_value >= 2 =>
        /\ (pc = "optimize" /\ encoder \in Encoders1)
              => Feasible1(graph, k_value, b_value, AllZero(graph, k_value))
        /\ (pc = "optimize" /\ encoder = "formulation_1_alt_b_gurobi")
              => Feasible1AltB(graph, k_value, b_value, AllZero(graph, k_value))
        /\ (pc = "optimize" /\ encoder = "formulation_1_alt_c_gurobi")
              => Feasible1AltC(graph, k_value, b_value, AllZero(graph, k_value))
        /\ (pc = "optimize" /\ encoder \in Encoders2)
              => Feasible2(graph, k_value, b_value, AllZero(graph, k_value))
        /\ (pc = "optimize" /\ encoder \in SubsetCoverEncoders)
              => /\ {} \notin cover
                 /\ SatisfiesCover(AllOne(graph), cover)
        /\ Returned => status # "INFEASIBLE"

EveryModelFeasibleWitness ==
    /\ pc = "optimize" /\ k_value >= 2
    /\ encoder \in LazyEncoders
    /\ Cardinality(cover) >= 2

\* ------------------------------------------------------------------------
\* Graph definition files (Graph.parse_graph_data, Graph.build_graph,
\* cli_main.parse_data, cli_main.build_graph).  A file is the sequence of its
\* lines without the empty piece after the last newline, a line is the
\* sequence of fields that split(', ') gives, a field is a string.  A node
\* label is written as the text print() gives it.
Labels == {ToString(v) : v \in 1..MaxNodes}

\* The numbers a field of the model's files can spell.
Numbers == 0..(MaxNodes + MaxEdgeLines)

\* int(field): a field that spells no number raises ValueError
IsInt(field) == \E n \in Numbers : ToString(n) = field

ParseInt(field) == CHOOSE n \in Numbers : ToString(n) = field

\* main_data, *edges_raw_data = raw_data.split("\n");
\* n_nodes, n_edges, is_directed = main_data.split(', '); int(...); bool(int(...))
ParseData(raw_data) ==
    LET main_data == Head(raw_data)
    IN IF Len(main_data) # 3 \/ \E n \in 1..3 : ~IsInt(main_data[n])
       THEN [error |-> "ValueError"]
       ELSE [error |-> NoError,
             n_nodes |-> ParseInt(main_data[1]),
             n_edges |-> ParseInt(main_data[2]),
             is_directed |-> ParseInt(main_data[3]) # 0,
             edges_data |-> Tail(raw_data)]

\* nx.Graph(edges_data) / nx.DiGraph(edges_data): nodes in the order of their
\* first appearance, adj[u][v] for every edge and adj[v][u] too when the
\* graph is undirected.
EmptyNxGraph(is_directed) == [nodes |-> << >>, adj |-> {}, is_directed |-> is_directed]

AddNode(nodes, u) == IF u \in Range(nodes) THEN nodes ELSE Append(nodes, u)

RECURSIVE AddEdgesFrom(_, _)
AddEdgesFrom(G, edges_data) ==
    IF edges_data = << >> THEN G
    ELSE LET u == Head(edges_data)[1]
             v == Head(edges_data)[2]
         IN AddEdgesFrom([nodes |-> AddNode(AddNode(G.nodes, u), v),
                          adj |-> G.adj \cup {<<u, v>>}
                                        \cup (IF G.is_directed THEN {} ELSE {<<v, u>>}),
                          is_directed |-> G.is_directed],
                         Tail(edges_data))

NumberOfNodes(G) == Len(G.nodes)

\* Mutant of number_of_edges: every adjacency entry is counted.
NumberOfAdjacencies(G) == Cardinality(G.adj)

\* number_of_edges(): the adjacency entries, each undirected edge once
NumberOfEdges(G) ==
    IF G.is_directed THEN Cardinality(G.adj)
    ELSE (Cardinality(G.adj) + Cardinality({e \in G.adj : e[1] = e[2]})) \div 2

\* build_graph: an edge line that is no pair is no valid edge list; sys.exit
\* when a count differs from the header's.
BuildGraph(raw_data) ==
    LET data == ParseData(raw_data)
    IN IF data.error # NoError THEN data
       ELSE IF \E n \in 1..Len(data.edges_data) : Len(data.edges_data[n]) # 2
       THEN [error |-> "NetworkXError"]
       ELSE LET G == AddEdgesFrom(EmptyNxGraph(data.is_directed), data.edges_data)
            IN IF NumberOfNodes(G) # data.n_nodes
               THEN [error |-> "Error: The graph's number of nodes is not the same as on the data file."]
               ELSE IF NumberOfEdges(G) # data.n_edges
               THEN [error |-> "Error: The graph's number of edges is not the same as on the data file."]
               ELSE [error |-> NoError,
                     n_nodes |-> data.n_nodes,
                     n_edges |-> data.n_edges,
                     is_directed |-> data.is_directed,
                     edges_data |-> data.edges_data,
                     nx_graph |-> G,
                     cvsp_solution |-> None]

\* The files of the model: a header of three numbers and up to MaxEdgeLines
\* edge lines between two different labels.
EdgeLines == {<<u, v>> : u, v \in Labels} \ {<<u, u>> : u \in Labels}

EdgeLists == UNION {[1..n -> EdgeLines] : n \in 0..MaxEdgeLines}

Headers ==
    {<<ToString(n), ToString(m), ToString(d)>> :
        n \in 0..MaxNodes, m \in 0..MaxEdgeLines, d \in {0, 1}}

DefinitionFiles == {<<h>> \o es : h \in Headers, es \in EdgeLists}

\* ------------------------------------------------------------------------
\* cli_main.py: main, parse_cli_args and solve_cvsp up to the call of
\* cvsp_solver.  A Python value is an int, a str or None.
PyInt(n) == [type |-> "int", int |-> n, str |-> ""]

PyStr(text) == [type |-> "str", int |-> 0, str |-> text]

DEF_INPUT_FILE == "./data/graph1.txt"
DEF_K_VALUE == 3
DEF_B_VALUE == 3
DEF_LIBRARY == "gurobi"
DEF_FORMULATION_INDEX == 1

\* The option values of the command line, None for an option that is absent.
Given(values) == {None} \cup {PyStr(v) : v \in values}

CommandLines ==
    [input_file : Given({DEF_INPUT_FILE}),
     library_name : Given({"ortools", "gurobi"}),
     formulation_index : Given({ToString(n) : n \in 1..2}),
     k_value : Given({ToString(n) : n \in 2..MaxK}),
     b_value : Given({ToString(n) : n \in 1..MaxB}),
     quiet : BOOLEAN]

AllGiven(a) ==
    /\ a.library_name # None /\ a.formulation_index # None
    /\ a.k_value # None /\ a.b_value # None

\* A definition file with the graph 1 - 2 - 3.
PathFile == <<<<"3", "2", "0">>, <<"1", "2">>, <<"2", "3">>>>

\* Either any definition file with one command line, or one file with any
\* command line.
InitCli ==
    /\ args \in CommandLines
    /\ \E raw_data \in DefinitionFiles :
          /\ disk = [name \in {DEF_INPUT_FILE} |-> raw_data]
          /\ \/ raw_data = PathFile
             \/ AllGiven(args) /\ args.quiet
                  /\ args.library_name = PyStr("gurobi") /\ args.formulation_index = PyStr("1")
                  /\ args.k_value = PyStr(ToString(MaxK)) /\ args.b_value = PyStr("1")
    /\ pc = "main"
    /\ error = NoError
    /\ ui = None
    /\ graph_object = None
    /\ forwarded = None
    /\ graph = [V |-> {}, E |-> {}]
    /\ library_name = "none"
    /\ formulation_index = 0
    /\ k_value = MaxK
    /\ b_value = MaxB
    /\ quiet = FALSE
    /\ encoder = NoEncoder
    /\ cover = {}
    /\ incumbent = {}
    /\ status = "LOADED"
    /\ solution = NoneSolution
    /\ num_bins = 0
    /\ node_list = << >>
    /\ w_family = << >>
    /\ printed = << >>
    /\ w_pos = 0
    /\ evaluated = << >>
    /\ where = "none"
    /\ rejections = 0

solver == <<graph, library_name, formulation_index, k_value, b_value, quiet,
            encoder, cover, incumbent, status, solution, num_bins, node_list,
            w_family, printed, w_pos, evaluated, where, rejections>>

\* if args.x: args.x = int(args.x)
Converted(value) == IF value = None THEN None ELSE PyInt(ParseInt(value.str))

\* A parameter that is None takes its default when quiet and else what the
\* user answers to input(), the default for an empty answer.
Resolved(parameter, default, answers) ==
    IF parameter # None THEN {parameter}
    ELSE IF args.quiet THEN {default}
    ELSE {default} \cup answers

\* main: args = parse_cli_args(); solve_cvsp(args.input_file,
\* args.output_file, args.k_value, args.b_value, args.library_name,
\* args.formulation_index, args.no_gui, args.quiet) binds its arguments by
\* position to solve_cvsp(input_file, output_file, library_name,
\* formulation_index, k_value, b_value, no_gui, quiet), which then resolves
\* the parameters that are None.
Main ==
    /\ pc = "main"
    /\ LET a_formulation_index == Converted(args.formulation_index)
           a_k_value == Converted(args.k_value)
           a_b_value == Converted(args.b_value)
       IN \E p_input_file \in Resolved(args.input_file, PyStr(DEF_INPUT_FILE), {}),
             p_library_name \in Resolved(a_k_value, PyStr(DEF_LIBRARY), {PyStr("ortools")}),
             p_formulation_index \in Resolved(a_b_value, PyInt(DEF_FORMULATION_INDEX), {PyInt(2)}),
             p_k_value \in Resolved(args.library_name, PyInt(DEF_K_VALUE), {PyInt(2)}),
             p_b_value \in Resolved(a_formulation_index, PyInt(DEF_B_VALUE), {PyInt(1)}) :
             forwarded' = [input_file |-> p_input_file,
                           library_name |-> p_library_name,
                           formulation_index |-> p_formulation_index,
                           k_value |-> p_k_value,
                           b_value |-> p_b_value,
                           quiet |-> args.quiet]
    /\ pc' = "solve_cvsp"
    /\ UNCHANGED <<solver, error, ui, graph_object, disk, args>>

\* with open(input_file): parse_data, build_graph
BuildGraphCli ==
    /\ pc = "solve_cvsp"
    /\ LET built == BuildGraph(disk[forwarded.input_file.str])
       IN IF built.error = NoError
          THEN /\ graph_object' = built
               /\ pc' = "built"
               /\ error' = error
          ELSE /\ graph_object' = graph_object
               /\ pc' = IF built.error \in {"ValueError", "NetworkXError"}
                        THEN "raised" ELSE "exited"
               /\ error' = built.error
    /\ UNCHANGED <<solver, ui, disk, args, forwarded>>

\* solution = cvsp_solver(graph, library_name, formulation_index - 1,
\*                        k_value, b_value, quiet)
CvspSolverCall ==
    /\ pc = "built"
    /\ forwarded' = [forwarded EXCEPT
                        !.formulation_index = PyInt(forwarded.formulation_index.int - 1)]
    /\ pc' = "cvsp_solver"
    /\ UNCHANGED <<solver, error, ui, graph_object, disk, args>>

NextCli == Main \/ BuildGraphCli \/ CvspSolverCall

SpecCli == InitCli /\ [][NextCli]_vars

\* The nodes and the edges that the edge lines of a file name.
DistinctNodes(raw_data) ==
    UNION {{raw_data[n][1], raw_data[n][2]} : n \in 2..Len(raw_data)}

DistinctEdges(raw_data) ==
    IF ParseInt(raw_data[1][3]) # 0
    THEN {<<raw_data[n][1], raw_data[n][2]>> : n \in 2..Len(raw_data)}
    ELSE {{raw_data[n][1], raw_data[n][2]} : n \in 2..Len(raw_data)}

\* C24: a file whose edge lines name a number of distinct nodes or of
\* distinct edges other than the header's ends the program with an error,
\* and the graph that reaches cvsp_solver has the header's counts.
StructuralMismatchRejected ==
    LET raw_data == disk[DEF_INPUT_FILE]
        matches == /\ Cardinality(DistinctNodes(raw_data)) = ParseInt(raw_data[1][1])
                   /\ Cardinality(DistinctEdges(raw_data)) = ParseInt(raw_data[1][2])
    IN /\ pc \in {"built", "cvsp_solver"}
            => /\ matches
               /\ NumberOfNodes(graph_object.nx_graph) = graph_object.n_nodes
               /\ NumberOfEdges(graph_object.nx_graph) = graph_object.n_edges
       /\ (pc \in {"exited", "raised"}) => (~matches /\ error # NoError)

StructuralMismatchWitness ==
    /\ pc = "exited"
    /\ LET raw_data == disk[DEF_INPUT_FILE]
       IN /\ Len(raw_data) = 3
          /\ raw_data[2] = <<raw_data[3][2], raw_data[3][1]>>
          /\ raw_data[1] = <<"2", "2", "0">>

\* C25: when -l, -f, -k and -b are all given, cvsp_solver is called with
\* library_name = the -l value, formulation_index = the -f value minus 1,
\* k_value = the -k value and b_value = the -b value.
OptionsForwarded ==
    (pc = "cvsp_solver" /\ AllGiven(args))
        => /\ forwarded.library_name = args.library_name
           /\ forwarded.formulation_index = PyInt(ParseInt(args.formulation_index.str) - 1)
           /\ forwarded.k_value = PyInt(ParseInt(args.k_value.str))
           /\ forwarded.b_value = PyInt(ParseInt(args.b_value.str))

\* ------------------------------------------------------------------------
\* The Graph class (src/src/graph.py): a Graph built from a file or
\* generated at random (graph_generator.py), exported with
\* export_definition and built again from the exported file.
GraphFile == "graph.txt"
ExportedFile == "exported.txt"

InitDefinition ==
    /\ \E raw_data \in DefinitionFiles : disk = [name \in {GraphFile} |-> raw_data]
    /\ pc = "start"
    /\ error = NoError
    /\ ui = None
    /\ graph_object = None
    /\ args = None
    /\ forwarded = None
    /\ graph = [V |-> {}, E |-> {}]
    /\ library_name = "none"
    /\ formulation_index = 0
    /\ k_value = MaxK
    /\ b_value = MaxB
    /\ quiet = FALSE
    /\ encoder = NoEncoder
    /\ cover = {}
    /\ incumbent = {}
    /\ status = "LOADED"
    /\ solution = NoneSolution
    /\ num_bins = 0
    /\ node_list = << >>
    /\ w_family = << >>
    /\ printed = << >>
    /\ w_pos = 0
    /\ evaluated = << >>
    /\ where = "none"
    /\ rejections = 0

\* Graph(input_file): build_graph, then cvsp_solution = None
NewGraph(raw_data, reached) ==
    LET built == BuildGraph(raw_data)
    IN IF built.error = NoError
       THEN /\ graph_object' = built
            /\ pc' = reached
            /\ error' = error
       ELSE /\ graph_object' = graph_object
            /\ pc' = IF built.error \in {"ValueError", "NetworkXError"}
                     THEN "raised" ELSE "exited"
            /\ error' = built.error

GraphFromFile ==
    /\ pc = "start"
    /\ NewGraph(disk[GraphFile], "built")
    /\ UNCHANGED <<solver, ui, disk, args, forwarded>>

\* list(edges): some order of the edges
RECURSIVE EdgeList(_)
EdgeList(edges) ==
    IF edges = {} THEN << >>
    ELSE LET e == CHOOSE e \in edges : TRUE
         IN <<e>> \o EdgeList(edges \ {e})

\* Graph(): nx.gnm_random_graph(n_nodes, n_edges): the nodes 0..n_nodes-1 and
\* n_edges different edges chosen at random; edges_data = nx_graph.edges().
\* The model draws the two counts from its bounds.
GraphRandom ==
    /\ pc = "start"
    /\ \E n \in 1..MaxNodes :
       \E edges \in SUBSET {<<ToString(u), ToString(v)>> : u, v \in 0..(n - 1)} :
          /\ \A e \in edges : \E u, v \in 0..(n - 1) :
                u < v /\ e = <<ToString(u), ToString(v)>>
          /\ Cardinality(edges) <= MaxEdgeLines
          /\ graph_object' =
                [error |-> NoError,
                 n_nodes |-> n,
                 n_edges |-> Cardinality(edges),
                 is_directed |-> FALSE,
                 edges_data |-> EdgeList(edges),
                 nx_graph |-> [nodes |-> [i \in 1..n |-> ToString(i - 1)],
                               adj |-> edges \cup {<<e[2], e[1]>> : e \in edges},
                               is_directed |-> FALSE],
                 cvsp_solution |-> None]
    /\ pc' = "built"
    /\ UNCHANGED <<solver, error, ui, disk, args, forwarded>>

\* print(n_nodes, n_edges, 1 if is_directed else 0, sep=", ") and one line
\* print(*edge, sep=", ") for every edge of edges_data
DefinitionOf(G) ==
    <<<<ToString(G.n_nodes), ToString(G.n_edges), IF G.is_directed THEN "1" ELSE "0">>>>
        \o G.edges_data

WriteFile(name, raw_data) ==
    [f \in DOMAIN disk \cup {name} |-> IF f = name THEN raw_data ELSE disk[f]]

ExportDefinition ==
    /\ pc = "built"
    /\ disk' = WriteFile(ExportedFile, DefinitionOf(graph_object))
    /\ pc' = "exported"
    /\ UNCHANGED <<solver, error, ui, graph_object, args, forwarded>>

GraphFromExport ==
    /\ pc = "exported"
    /\ NewGraph(disk[ExportedFile], "reloaded")
    /\ UNCHANGED <<solver, ui, disk, args, forwarded>>

NextDefinition == GraphFromFile \/ GraphRandom \/ ExportDefinition \/ GraphFromExport

SpecDefinition == InitDefinition /\ [][NextDefinition]_vars

\* A step that builds a Graph from the exported file builds one with the
\* node count, the edge count and the directedness of the exported Graph.
ReloadKeepsGraph ==
    (pc = "exported" /\ pc' # "exported")
        => /\ pc' = "reloaded"
           /\ NumberOfNodes(graph_object'.nx_graph) = NumberOfNodes(graph_object.nx_graph)
           /\ NumberOfEdges(graph_object'.nx_graph) = NumberOfEdges(graph_object.nx_graph)
           /\ graph_object'.is_directed = graph_object.is_directed

\* C30: the file export_definition writes for a Graph, loaded from a file or
\* generated at random, is accepted by build_graph and gives a graph with
\* the same number of nodes, the same number of edges and the same
\* directedness.
DefinitionRoundTrip == [][ReloadKeepsGraph]_vars

\* ------------------------------------------------------------------------
\* Graph.solve_cvsp, Graph.export_solution and Graph.load_solution: the
\* solver's return is kept in cvsp_solution, written to a file and read back.
SolutionFile == "solution.txt"

RECURSIVE LabelsOf(_)
LabelsOf(list) ==
    IF list = << >> THEN << >> ELSE <<ToString(Head(list))>> \o LabelsOf(Tail(list))

\* The Graph object of a graph whose nodes carry the labels "1", "2", ...
GraphObjectOf(g) ==
    LET edges == {<<ToString(e[1]), ToString(e[2])>> : e \in g.E}
    IN [error |-> NoError,
        n_nodes |-> Cardinality(g.V),
        n_edges |-> Cardinality(g.E),
        is_directed |-> FALSE,
        edges_data |-> EdgeList(edges),
        nx_graph |-> [nodes |-> LabelsOf(NodeList(g.V)),
                      adj |-> edges \cup {<<e[2], e[1]>> : e \in edges},
                      is_directed |-> FALSE],
        cvsp_solution |-> None]

\* The Python value cvsp_solver returns: a list of labels in the order of
\* the graph's nodes, a dict with the keys 'S' and 'V', or None.
PySolution(returned) ==
    IF returned.kind = "list"
    THEN [kind |-> "list", items |-> LabelsOf(NodeList(returned.S))]
    ELSE IF returned.kind = "dict"
    THEN [kind |-> "dict",
          S |-> LabelsOf(NodeList(returned.S)),
          V |-> [i \in DOMAIN returned.V |-> LabelsOf(NodeList(returned.V[i]))]]
    ELSE None

InitSolution ==
    /\ graph \in Graphs
    /\ library_name \in DOMAIN Formulations
    /\ formulation_index \in 0..(Len(Formulations[library_name]) - 1)
    /\ k_value = MaxK
    /\ b_value \in BValues
    /\ quiet = FALSE
    /\ pc = "call"
    /\ encoder = NoEncoder
    /\ error = NoError
    /\ cover = {}
    /\ incumbent = {}
    /\ status = "LOADED"
    /\ solution = NoneSolution
    /\ num_bins = 0
    /\ node_list = << >>
    /\ w_family = << >>
    /\ printed = << >>
    /\ w_pos = 0
    /\ evaluated = << >>
    /\ where = "none"
    /\ rejections = 0
    /\ ui = None
    /\ graph_object = GraphObjectOf(graph)
    /\ disk = << >>
    /\ args = None
    /\ forwarded = None

\* self.cvsp_solution = cvsp_solver(self.nx_graph, ...)
SolveCvsp ==
    /\ pc = "done"
    /\ graph_object' = [graph_object EXCEPT !.cvsp_solution = PySolution(solution)]
    /\ pc' = "solved"
    /\ UNCHANGED <<solver, error, ui, disk, args, forwarded>>

\* The positional arguments of print(*value): the items of a list, the keys
\* of a dict; None cannot be unpacked.
Unpacked(value) ==
    IF value.kind = "list" THEN value.items ELSE <<"S", "V">>

\* print(*values, sep=", ") writes the values joined by ", " and a newline;
\* the line of no value is empty, and split(", ") gives [''] for it.
PrintedLine(values) == IF values = << >> THEN <<"">> ELSE values

ExportSolution ==
    /\ pc = "solved"
    /\ IF graph_object.cvsp_solution = None
       THEN /\ pc' = "raised"
            /\ error' = "TypeError"
            /\ disk' = disk
       ELSE /\ pc' = "exported"
            /\ error' = error
            /\ disk' = WriteFile(SolutionFile,
                                 <<PrintedLine(Unpacked(graph_object.cvsp_solution))>>)
    /\ UNCHANGED <<solver, ui, graph_object, args, forwarded>>

\* solution_nodes = raw_data.split("\n")[0].split(", ")
LoadedSolution(raw_data) == [kind |-> "list", items |-> Head(raw_data)]

LoadSolution ==
    /\ pc = "exported"
    /\ graph_object' = [graph_object EXCEPT
                           !.cvsp_solution = LoadedSolution(disk[SolutionFile])]
    /\ pc' = "loaded"
    /\ UNCHANGED <<solver, error, ui, disk, args, forwarded>>

NextSolution == Next \/ SolveCvsp \/ ExportSolution \/ LoadSolution

SpecSolution == InitSolution /\ [][NextSolution]_vars

\* C29: export_solution to a file followed by load_solution from that file
\* leaves cvsp_solution equal to the solution cvsp_solver returned.
SolutionRoundTrip ==
    pc = "loaded" => graph_object.cvsp_solution = PySolution(solution)

\* ------------------------------------------------------------------------
\* gui_main.py: the UiMainWindow object and its slots.  File names are short
\* enough to be shown whole by the labels.
FORMULATIONS ==
    [ortools |-> <<"1", "2", "3", "4">>,
     gurobi |-> <<"1", "1 alt b", "1 alt c", "2", "3", "3 lazy", "4", "4 lazy">>]

\* FORMULATIONS.keys()
AvailableLibraries == <<"ortools", "gurobi">>

\* k_value.setRange(2, 999); setValue(3); b_value.setRange(1, 999); setValue(3):
\* the least value of each spin box and its initial value
InitialSpinValue == 3
KSpinValues == {2, InitialSpinValue}
BSpinValues == {1, InitialSpinValue}

NoFileSelected == "No file selected"

\* The window after setup_ui.
InitialWindow ==
    [graph_file |-> None,
     selected_graph_file_label |-> NoFileSelected,
     solution_file |-> None,
     selected_solution_file_label |-> NoFileSelected,
     status_label |-> "",
     library_selector |-> [items |-> AvailableLibraries, currentIndex |-> 0],
     formulation_selector |-> [items |-> FORMULATIONS[AvailableLibraries[1]],
                               currentIndex |-> 0],
     k_value |-> InitialSpinValue,
     b_value |-> InitialSpinValue]

CurrentText(selector) == selector.items[selector.currentIndex + 1]

\* The files on the disk: a graph definition and a file whose header has
\* two fields.
EdgeFile == <<<<"2", "1", "0">>, <<"2", "1">>>>
BrokenFile == "broken.txt"
GuiGraphFiles == {PathFile, EdgeFile}

InitGui ==
    /\ ui = InitialWindow
    /\ graph_object = None
    /\ \E raw_data \in GuiGraphFiles :
          disk = [name \in {GraphFile, BrokenFile} |->
                     IF name = GraphFile THEN raw_data ELSE <<<<"3", "2">>>>]
    /\ pc = "gui"
    /\ error = NoError
    /\ args = None
    /\ forwarded = None
    /\ graph = [V |-> {}, E |-> {}]
    /\ library_name = "none"
    /\ formulation_index = 0
    /\ k_value = MaxK
    /\ b_value = MaxB
    /\ quiet = FALSE
    /\ encoder = NoEncoder
    /\ cover = {}
    /\ incumbent = {}
    /\ status = "LOADED"
    /\ solution = NoneSolution
    /\ num_bins = 0
    /\ node_list = << >>
    /\ w_family = << >>
    /\ printed = << >>
    /\ w_pos = 0
    /\ evaluated = << >>
    /\ where = "none"
    /\ rejections = 0

\* The solver variables that a slot leaves alone: all but the encoder that
\* the latest call of cvsp_solver selected.
solving == <<graph, library_name, formulation_index, k_value, b_value, quiet,
             cover, incumbent, status, solution, num_bins, node_list, w_family,
             printed, w_pos, evaluated, where, rejections>>

\* Graph.show(): draws the graph when cvsp_solution is None; draws a list
\* when every item is a node with a position and can be removed once from
\* the copy; sys.exit for any other value.
Show(G) ==
    IF G.cvsp_solution = None THEN "drawn"
    ELSE IF G.cvsp_solution.kind = "list"
    THEN LET items == G.cvsp_solution.items
         IN IF /\ \A n \in 1..Len(items) : items[n] \in Range(G.nx_graph.nodes)
               /\ \A n, m \in 1..Len(items) : n # m => items[n] # items[m]
            THEN "drawn" ELSE "NetworkXError"
    ELSE "Error: unknown solution format"

\* set_graph_file, set_solution_file
SetGraphFile(window, graph_file) ==
    [window EXCEPT !.graph_file = PyStr(graph_file),
                   !.selected_graph_file_label = graph_file]

SetSolutionFile(window, solution_file) ==
    [window EXCEPT !.solution_file = PyStr(solution_file),
                   !.selected_solution_file_label = solution_file]

SetStatus(window, text) == [window EXCEPT !.status_label = text]

\* load_graph: the dialog is cancelled or returns a file of the disk.
LoadGraph ==
    /\ pc = "gui"
    /\ \/ /\ ui' = SetStatus(ui, "Graph not loaded.")
          /\ UNCHANGED <<graph_object, pc, error>>
       \/ \E graph_file \in DOMAIN disk :
             LET built == BuildGraph(disk[graph_file])
                 window == SetGraphFile(SetStatus(ui, "Loading graph..."), graph_file)
             IN IF built.error = "ValueError"
                THEN /\ ui' = SetStatus(window, "Error: The graph file is not valid.")
                     /\ UNCHANGED <<graph_object, pc, error>>
                ELSE IF built.error # NoError
                THEN /\ ui' = window
                     /\ graph_object' = graph_object
                     /\ pc' = IF built.error = "NetworkXError" THEN "raised" ELSE "exited"
                     /\ error' = built.error
                ELSE /\ ui' = SetStatus(window, "Done.")
                     /\ graph_object' = built
                     /\ UNCHANGED <<pc, error>>
    /\ UNCHANGED <<solving, encoder, disk, args, forwarded>>

\* Mutant of update_formulation_selector: the entries are added without
\* clear().
AppendedFormulations(selector, library) ==
    [items |-> selector.items \o FORMULATIONS[library],
     currentIndex |-> selector.currentIndex]

\* update_formulation_selector: clear(), addItems(...); the first entry of
\* a combo box filled from empty becomes the current one
UpdatedFormulations(selector, library) ==
    [items |-> FORMULATIONS[library], currentIndex |-> 0]

\* The user selects another library: currentIndexChanged calls
\* update_formulation_selector with its text.
SelectLibrary ==
    /\ pc = "gui"
    /\ \E index \in 0..(Len(ui.library_selector.items) - 1) :
          /\ index # ui.library_selector.currentIndex
          /\ ui' = [ui EXCEPT
                      !.library_selector.currentIndex = index,
                      !.formulation_selector =
                          UpdatedFormulations(ui.formulation_selector,
                                              ui.library_selector.items[index + 1])]
    /\ UNCHANGED <<solving, encoder, graph_object, pc, error, disk, args, forwarded>>

\* The user selects another entry of the formulation selector.
SelectFormulation ==
    /\ pc = "gui"
    /\ \E index \in 0..(Len(ui.formulation_selector.items) - 1) :
          /\ index # ui.formulation_selector.currentIndex
          /\ ui' = [ui EXCEPT !.formulation_selector.currentIndex = index]
    /\ UNCHANGED <<solving, encoder, graph_object, pc, error, disk, args, forwarded>>

\* The user changes a spin box.
SetKValue ==
    /\ pc = "gui"
    /\ \E k \in KSpinValues \ {ui.k_value} : ui' = [ui EXCEPT !.k_value = k]
    /\ UNCHANGED <<solving, encoder, graph_object, pc, error, disk, args, forwarded>>

SetBValue ==
    /\ pc = "gui"
    /\ \E b \in BSpinValues \ {ui.b_value} : ui' = [ui EXCEPT !.b_value = b]
    /\ UNCHANGED <<solving, encoder, graph_object, pc, error, disk, args, forwarded>>

\* The graph cvsp_solver works on: node n is the n-th node of nx_graph.
SolverGraph(G) ==
    [V |-> 1..Len(G.nodes),
     E |-> {e \in (1..Len(G.nodes)) \X (1..Len(G.nodes)) :
               e[1] < e[2] /\ <<G.nodes[e[1]], G.nodes[e[2]]>> \in G.adj}]

RECURSIVE NodesAt(_, _)
NodesAt(nodes, list) ==
    IF list = << >> THEN << >> ELSE <<nodes[Head(list)]>> \o NodesAt(nodes, Tail(list))

\* The Python value of a return, with the labels of nx_graph.
PySolutionOn(nodes, returned) ==
    IF returned.kind = "list"
    THEN [kind |-> "list", items |-> NodesAt(nodes, NodeList(returned.S))]
    ELSE IF returned.kind = "dict"
    THEN [kind |-> "dict",
          S |-> NodesAt(nodes, NodeList(returned.S)),
          V |-> [i \in DOMAIN returned.V |-> NodesAt(nodes, NodeList(returned.V[i]))]]
    ELSE None

\* cvsp_solver(g, lib, index, k, b, quiet): the exception of the dispatch,
\* or the selected encoder with None or the solution of an optimal point.
CvspSolverReturns(g, lib, index, k, b) ==
    IF ~KnownLibrary(lib)
    THEN {[error |-> "TypeError", encoder |-> NoEncoder, solution |-> NoneSolution]}
    ELSE IF ~IndexInList(Formulations[lib], index)
    THEN {[error |-> "IndexError", encoder |-> NoEncoder, solution |-> NoneSolution]}
    ELSE LET enc == ListItem(Formulations[lib], index)
         IN {[error |-> NoError, encoder |-> enc, solution |-> NoneSolution]}
            \cup {[error |-> NoError, encoder |-> enc,
                   solution |-> IF enc \in SubsetCoverEncoders
                                THEN ExtractSeparator(g, p)
                                ELSE ExtractPartition(g, k, p)] :
                     p \in OptimaOf(enc, g, k, b)}

\* The outcomes of cvsp_solver for every request the window can make on the
\* graph files at hand, computed once.
WindowRequests ==
    [g \in {SolverGraph(BuildGraph(raw_data).nx_graph) : raw_data \in GuiGraphFiles},
     lib \in {AvailableLibraries[i] : i \in 1..Len(AvailableLibraries)},
     index \in 0..7, k \in KSpinValues, b \in BSpinValues
        |-> CvspSolverReturns(g, lib, index, k, b)]

\* get_solution: its first statement assigns to self.graph.cvsp_solution.
GetSolution ==
    /\ pc = "gui"
    /\ IF graph_object = None
       THEN /\ pc' = "raised"
            /\ error' = "AttributeError"
            /\ UNCHANGED <<ui, graph_object, encoder>>
       ELSE LET window == [SetStatus(ui, "Loading solution...") EXCEPT
                              !.solution_file = None,
                              !.selected_solution_file_label = NoFileSelected]
                g == SolverGraph(graph_object.nx_graph)
                lib == CurrentText(ui.library_selector)
                index == ui.formulation_selector.currentIndex
            IN \E ret \in WindowRequests[g, lib, index, ui.k_value, ui.b_value] :
                  /\ encoder' = ret.encoder
                  /\ IF ret.error # NoError
                     THEN /\ graph_object' = [graph_object EXCEPT !.cvsp_solution = None]
                          /\ ui' = window
                          /\ pc' = "raised"
                          /\ error' = ret.error
                     ELSE LET G == [graph_object EXCEPT !.cvsp_solution =
                                       PySolutionOn(graph_object.nx_graph.nodes, ret.solution)]
                          IN /\ graph_object' = G
                             /\ IF Show(G) = "drawn"
                                THEN /\ ui' = SetStatus(window,
                                                IF G.cvsp_solution = None
                                                THEN "Solution not found." ELSE "Done.")
                                     /\ UNCHANGED <<pc, error>>
                                ELSE /\ ui' = window
                                     /\ pc' = IF Show(G) = "NetworkXError"
                                              THEN "raised" ELSE "exited"
                                     /\ error' = Show(G)
    /\ UNCHANGED <<solving, disk, args, forwarded>>

\* save_solution: the dialog is cancelled or returns the solution file.
SaveSolution ==
    /\ pc = "gui"
    /\ IF graph_object = None
       THEN /\ ui' = SetStatus(ui, "Please, load a graph and get a solution first.")
            /\ disk' = disk
       ELSE IF graph_object.cvsp_solution = None
       THEN /\ ui' = SetStatus(ui, "Please, get a solution first.")
            /\ disk' = disk
       ELSE \/ /\ ui' = SetStatus(ui, "Solution file not saved.")
               /\ disk' = disk
            \/ /\ ui' = SetStatus(SetSolutionFile(ui, SolutionFile), "Done.")
               /\ disk' = WriteFile(SolutionFile,
                                    <<PrintedLine(Unpacked(graph_object.cvsp_solution))>>)
    /\ UNCHANGED <<solving, encoder, graph_object, pc, error, args, forwarded>>

\* load_solution of the window: the dialog is cancelled or returns a file of
\* the disk; set_solution_file, Graph.load_solution, show_graph.
LoadSolutionFile ==
    /\ pc = "gui"
    /\ IF graph_object = None
       THEN /\ ui' = SetStatus(ui, "Please, load a graph first.")
            /\ graph_object' = graph_object
       ELSE \/ /\ ui' = SetStatus(ui, "Solution file not loaded.")
               /\ graph_object' = graph_object
            \/ \E solution_file \in DOMAIN disk :
                  LET G == [graph_object EXCEPT
                               !.cvsp_solution = LoadedSolution(disk[solution_file])]
                  IN /\ graph_object' = G
                     /\ ui' = SetStatus(SetSolutionFile(ui, solution_file),
                                        IF Show(G) = "drawn" THEN "Done."
                                        ELSE "Error: The solution file is not valid for this graph.")
    /\ UNCHANGED <<solving, encoder, pc, error, disk, args, forwarded>>

\* The slots of the four buttons, with the selectors and the spin boxes as
\* setup_ui leaves them.
NextGui ==
    \/ LoadGraph
    \/ GetSolution
    \/ SaveSolution
    \/ LoadSolutionFile

SpecGui == InitGui /\ [][NextGui]_vars

\* The selectors and the spin boxes with Select file and Get Solution.
NextSelectors ==
    \/ LoadGraph
    \/ SelectLibrary
    \/ SelectFormulation
    \/ SetKValue
    \/ SetBValue
    \/ GetSolution

SpecSelectors == InitGui /\ [][NextSelectors]_vars

\* C23: after Get Solution, Graph.show() draws every solution the solver
\* returned, the dict of formulations 1 and 2 as well as the list of
\* formulations 3 and 4, and never ends the program with 'unknown solution
\* format'.
ShowAcceptsSolverSolutions ==
    ~(pc = "exited" /\ error = "Error: unknown solution format")

\* A step of Get Solution, Save solution or Load solution while no graph is
\* loaded only sets the status label to its 'Please, load a graph' message.
NoGraphStep ==
    (graph_object = None /\ (GetSolution \/ SaveSolution \/ LoadSolutionFile))
        => /\ \E text \in {"Please, load a graph first.",
                           "Please, load a graph and get a solution first."} :
                 ui' = SetStatus(ui, text)
           /\ UNCHANGED <<graph_object, disk, pc, error, encoder>>

\* C26: with no graph loaded, Get Solution, Save solution and Load solution
\* only set the status label to the 'Please, load a graph ... first.'
\* message: no solve, no dialog, no other change, no error.
NoGraphHarmless == [][NoGraphStep]_vars

\* A load that ends in its error branch leaves what it was to replace.
FailedLoadStep ==
    /\ (LoadSolutionFile
            /\ ui'.status_label = "Error: The solution file is not valid for this graph.")
          => /\ graph_object'.cvsp_solution = graph_object.cvsp_solution
             /\ ui'.solution_file = ui.solution_file
             /\ ui'.selected_solution_file_label = ui.selected_solution_file_label
    /\ (LoadGraph /\ ui'.status_label = "Error: The graph file is not valid.")
          => /\ graph_object' = graph_object
             /\ ui'.graph_file = ui.graph_file
             /\ ui'.selected_graph_file_label = ui.selected_graph_file_label

\* C27: a Load solution that ends with 'The solution file is not valid for
\* this graph.' leaves the stored solution, the remembered solution file and
\* its label as they were, and a Select file that ends with 'The graph file
\* is not valid.' leaves the graph, the remembered graph file and its label
\* as they were.
FailedLoadKeepsState == [][FailedLoadStep]_vars

\* The entry of the formulation selector that names an encoder of
\* cvsp_solver's table.
EntryOf ==
    [formulation_1_ortools |-> "1", formulation_2_ortools |-> "2",
     formulation_3_ortools |-> "3", formulation_4_ortools |-> "4",
     formulation_1_gurobi |-> "1", formulation_1_alt_b_gurobi |-> "1 alt b",
     formulation_1_alt_c_gurobi |-> "1 alt c", formulation_2_gurobi |-> "2",
     formulation_3_gurobi |-> "3", formulation_3_lazy_gurobi |-> "3 lazy",
     formulation_4_gurobi |-> "4", formulation_4_lazy_gurobi |-> "4 lazy"]

\* The entries of the formulation selector are those of the selected library
\* and the current index is one of cvsp_solver's table for it.
SelectorsConsistent ==
    LET lib == CurrentText(ui.library_selector)
        index == ui.formulation_selector.currentIndex
    IN /\ ui.formulation_selector.items = FORMULATIONS[lib]
       /\ lib = "ortools" => index \in 0..3
       /\ lib = "gurobi" => index \in 0..7
       /\ index \in 0..(Len(Formulations[lib]) - 1)

\* get_solution writes none of the selectors, the spin boxes or the graph
\* file.
SelectionKept ==
    /\ ui'.library_selector = ui.library_selector
    /\ ui'.formulation_selector = ui.formulation_selector
    /\ ui'.k_value = ui.k_value
    /\ ui'.b_value = ui.b_value
    /\ ui'.graph_file = ui.graph_file

\* Get Solution on a loaded graph selects the encoder that the displayed
\* entry names.
RequestStep ==
    (graph_object # None /\ SelectionKept /\ GetSolution)
        => /\ error' \notin {"TypeError", "IndexError"}
           /\ EntryOf[encoder'] = CurrentText(ui.formulation_selector)

\* C28: after any sequence of selector changes the formulation selector
\* holds exactly the formulations of the selected library, and Get Solution
\* passes an index within 0..3 for 'ortools' and 0..7 for 'gurobi' that
\* selects the encoder named by the displayed entry.
ValidFormulationRequested == []SelectorsConsistent /\ [][RequestStep]_vars

ValidFormulationWitness ==
    /\ pc = "gui"
    /\ CurrentText(ui.library_selector) = "gurobi"
    /\ ui.formulation_selector.currentIndex = 7
    /\ encoder = "formulation_4_lazy_gurobi"
    /\ ui.status_label = "Done."

====
